---- MODULE Spec2Model ----
(***************************************************************************)
(* Model of blackboard_archive_extractor.py: the edit distance _str_dist,  *)
(* the identity parser and submission index (get_submissions), the fuzzy   *)
(* extraction engine (extract_files) and the batch driver                  *)
(* (extract_into_dir).                                                     *)
(*                                                                         *)
(* Strings are sequences of one-character strings.  Member content is a    *)
(* sequence of bytes; a file of the output directory holds text, a         *)
(* sequence of code points.                                                *)
(***************************************************************************)
EXTENDS Integers, Sequences, FiniteSets, TLC

VARIABLES
    dA, dB, dRes,       \* _str_dist: the two arguments and <<the returned value>>
    zip,                \* the archive file a request opens
    dir,                \* the target directory: file name -> content
    call,               \* the last extract_files call: inputs and outcome
    first,              \* outcome of the previous identical call, or none
    glob,               \* extract_into_dir: the archive files glob.glob finds
    disk,               \* archive file name -> the archive stored under it
    files,              \* extract_into_dir: the requested files
    submissions,        \* self._submissions, in key order
    batch,              \* extract_into_dir: position and escaped exception
    attempted,          \* the (username, file) pairs extract_files was called for
    procs,              \* concurrent requests: arguments and position of each
    touched             \* the target names each concurrent request removed or wrote

engineVars == <<zip, dir, call, first>>
distVars == <<dA, dB, dRes>>
batchVars == <<glob, disk, files, submissions, batch, attempted>>
concVars == <<procs, touched>>

vars == <<dA, dB, dRes, zip, dir, call, first, glob, disk, files, submissions,
          batch, attempted, procs, touched>>

\* ------------------------------------------------------------------ bounds
MaxStrLen == 3          \* longest string handed to _str_dist in SpecDist
MaxMembers == 3         \* longest archive listing

\* ----------------------------------------------------------------- strings
Min2(x, y) == IF x <= y THEN x ELSE y

Min3(x, y, z) == Min2(x, Min2(y, z))

Last(s) == s[Len(s)]

\* sub in name
Contains(name, sub) ==
    \E i \in 0..(Len(name) - Len(sub)) : SubSeq(name, i + 1, i + Len(sub)) = sub

\* name.endswith(suffix)
EndsWith(name, suffix) ==
    /\ Len(suffix) <= Len(name)
    /\ SubSeq(name, Len(name) - Len(suffix) + 1, Len(name)) = suffix

\* os.path.basename(p): what follows the last "/"
RECURSIVE Basename(_)
Basename(p) ==
    IF p = <<>> THEN <<>>
    ELSE IF Last(p) = "/" THEN <<>>
    ELSE Append(Basename(SubSeq(p, 1, Len(p) - 1)), Last(p))

\* --------------------------------------------------------------- _str_dist
\* the inner loop with a substitution that always costs one
RECURSIVE CurrentRowSubstAlways(_, _, _, _, _)
CurrentRowSubstAlways(previous_row, current_row, char1, string2, j) ==
    IF j > Len(string2) THEN current_row
    ELSE LET insertions == previous_row[j + 1] + 1
             deletions == current_row[j] + 1
             substitutions == previous_row[j] + 1
         IN CurrentRowSubstAlways(previous_row,
                       Append(current_row, Min3(insertions, deletions, substitutions)),
                       char1, string2, j + 1)

\* the inner loop over string2: extends current_row by one cell per char2
RECURSIVE CurrentRow(_, _, _, _, _)
CurrentRow(previous_row, current_row, char1, string2, j) ==
    IF j > Len(string2) THEN current_row
    ELSE LET insertions == previous_row[j + 1] + 1
             deletions == current_row[j] + 1
             substitutions == previous_row[j] + (IF char1 # string2[j] THEN 1 ELSE 0)
         IN CurrentRow(previous_row,
                       Append(current_row, Min3(insertions, deletions, substitutions)),
                       char1, string2, j + 1)

\* the outer loop over string1: previous_row after rows i..len(string1)
RECURSIVE Rows(_, _, _, _)
Rows(previous_row, string1, string2, i) ==
    IF i > Len(string1) THEN previous_row
    ELSE Rows(CurrentRow(previous_row, <<i>>, string1[i], string2, 1),
              string1, string2, i + 1)

StrDistOrdered(string1, string2) ==
    IF Len(string2) = 0 THEN Len(string1)
    ELSE Last(Rows([k \in 1..(Len(string2) + 1) |-> k - 1], string1, string2, 1))

StrDist(string1, string2) ==
    IF Len(string1) < Len(string2)
    THEN StrDistOrdered(string2, string1)
    ELSE StrDistOrdered(string1, string2)

\* ------------------------------------------------- _str_dist called directly
Alphabet == {"a", "b"}

Strings == UNION {[1..n -> Alphabet] : n \in 0..MaxStrLen}

InitDist ==
    /\ dA \in Strings
    /\ dB \in Strings
    /\ dRes = <<>>
    /\ zip = <<>> /\ dir = <<>> /\ call = <<>> /\ first = <<>>
    /\ glob = <<>> /\ disk = <<>> /\ files = <<>> /\ submissions = <<>>
    /\ batch = <<>> /\ attempted = {}
    /\ procs = <<>> /\ touched = <<>>

CallStrDist ==
    /\ dRes = <<>>
    /\ dRes' = <<StrDist(dA, dB)>>
    /\ UNCHANGED <<dA, dB, engineVars, batchVars, concVars>>

NextDist == CallStrDist

SpecDist == InitDist /\ [][NextDist]_vars

\* unit-cost Levenshtein distance, by its defining recurrence
RECURSIVE Levenshtein(_, _)
Levenshtein(a, b) ==
    IF a = <<>> THEN Len(b)
    ELSE IF b = <<>> THEN Len(a)
    ELSE Min3(Levenshtein(Tail(a), b) + 1,
              Levenshtein(a, Tail(b)) + 1,
              Levenshtein(Tail(a), Tail(b)) + (IF Head(a) # Head(b) THEN 1 ELSE 0))

\* C9: _str_dist returns the unit-cost Levenshtein distance of its arguments;
\* it is symmetric, zero on equal arguments, and the length of the other
\* argument when one argument is empty.
C9_StrDistIsLevenshtein ==
    dRes # <<>> =>
        /\ dRes[1] = Levenshtein(dA, dB)
        /\ dRes[1] = StrDist(dB, dA)
        /\ (dA = dB => dRes[1] = 0)
        /\ (dA = <<>> => dRes[1] = Len(dB))

\* a distance was returned for two different non-empty strings of different length
C9_Witness ==
    /\ dRes # <<>>
    /\ dA # <<>> /\ dB # <<>>
    /\ Len(dA) < Len(dB)
    /\ dRes[1] > Len(dB) - Len(dA)

\* ------------------------------------------------------ archives and files
Test == <<"t", "e", "s", "t">>      \* the literal "test" of the member filter

M == <<"M">>
sM == <<"s", "/", "M">>
pM == <<"p", "/", "M">>
qM == <<"q", "/", "M">>
testM == <<"t", "e", "s", "t", "/", "M">>
sN == <<"s", "/", "N">>

MemberNames == {M, sM, pM, qM, testM, sN}

ExpectedPaths == {sM, testM}

Prefixes == {<<"a", "_">>}

NoPath == <<>>          \* None as a member path (as falsy as the empty string)

Range(s) == {s[i] : i \in 1..Len(s)}

\* the bytes of a member: one ASCII byte that tells the members apart, followed
\* by the byte 0xFF, which no UTF-8 text contains, when the member is not text
MemberByte(name) ==
    CASE name = M -> 65
      [] name = sM -> 66
      [] name = pM -> 67
      [] name = qM -> 68
      [] name = testM -> 69
      [] name = sN -> 70

TextBytes(name) == <<MemberByte(name)>>

BinaryBytes(name) == <<MemberByte(name), 255>>

\* bytes.decode('utf-8') on bytes that are ASCII or 0xFF: the code points of
\* ASCII bytes are the bytes; 0xFF starts no UTF-8 sequence
Decode(bytes) ==
    IF \A i \in 1..Len(bytes) : bytes[i] < 128
    THEN [ok |-> TRUE, text |-> bytes]
    ELSE [ok |-> FALSE, text |-> <<>>]

\* ZipFile.namelist() in the archive's own order, ZipFile.read(name) by name
Listings ==
    {l \in UNION {[1..n -> MemberNames] : n \in 0..MaxMembers} :
        \A i, j \in 1..Len(l) : l[i] = l[j] => i = j}

Archives ==
    {[corrupt |-> TRUE, namelist |-> <<>>, data |-> <<>>]} \cup
    UNION {{[corrupt |-> FALSE,
             namelist |-> l,
             data |-> [n \in Range(l) |->
                          IF n \in B THEN BinaryBytes(n) ELSE TextBytes(n)]] :
            B \in SUBSET Range(l)} : l \in Listings}

\* a file of the target directory
NoFile == [exists |-> FALSE, text |-> <<>>]

File(text) == [exists |-> TRUE, text |-> text]

OldText == <<79>>       \* what a file left in the target directory holds

\* pre + fname, the name of the file under self._target
TargetName(pre, fname) == pre \o fname

TargetNames == {TargetName(pre, Basename(e)) : pre \in Prefixes, e \in ExpectedPaths}

\* os.rmdir in the place of os.remove: a file is no directory
OsRmdir(d, path) == [err |-> "OSError", dir |-> d]

\* os.remove(path) of an existing file
OsRemove(d, path) == [err |-> "", dir |-> [d EXCEPT ![path] = NoFile]]

\* if os.path.exists(target_path): os.remove(target_path)
RemoveExisting(d, target_path) ==
    IF d[target_path].exists THEN OsRemove(d, target_path)
    ELSE [err |-> "", dir |-> d]

\* open(path, 'w') creates or truncates the file; the argument of write() is
\* decoded after that, and written when it decodes
WriteDecoded(d, path, bytes) ==
    LET opened == [d EXCEPT ![path] = File(<<>>)]
        decoded == Decode(bytes)
    IN IF decoded.ok
       THEN [err |-> "", dir |-> [opened EXCEPT ![path] = File(decoded.text)]]
       ELSE [err |-> "UnicodeDecodeError", dir |-> opened]

\* ------------------------------------------------------------ extract_files
FloatMax == 1000000     \* sys.float_info.max, above every distance of two names

ScanInit == [hit |-> NoPath, best_path |-> NoPath, best_dist |-> FloatMax]

\* the loop body comparing the name with the base name, not the expected path
ScanStepBaseCompare(st, name, expected, fname, exact) ==
    IF Contains(name, Test) THEN st
    ELSE IF ~EndsWith(name, fname) THEN st
    ELSE IF name = fname THEN [st EXCEPT !.hit = name]
    ELSE IF exact THEN st
    ELSE LET tmp_dist == StrDist(expected, name)
         IN IF tmp_dist < st.best_dist
            THEN [st EXCEPT !.best_dist = tmp_dist, !.best_path = name]
            ELSE st

\* the loop body without the "test" filter
ScanStepNoTestFilter(st, name, expected, fname, exact) ==
    IF ~EndsWith(name, fname) THEN st
    ELSE IF name = expected THEN [st EXCEPT !.hit = name]
    ELSE IF exact THEN st
    ELSE LET tmp_dist == StrDist(expected, name)
         IN IF tmp_dist < st.best_dist
            THEN [st EXCEPT !.best_dist = tmp_dist, !.best_path = name]
            ELSE st

\* the loop body tracking the best candidate whatever exact says
ScanStepFuzzyAlways(st, name, expected, fname, exact) ==
    IF Contains(name, Test) THEN st
    ELSE IF ~EndsWith(name, fname) THEN st
    ELSE IF name = expected THEN [st EXCEPT !.hit = name]
    ELSE LET tmp_dist == StrDist(expected, name)
         IN IF tmp_dist < st.best_dist
            THEN [st EXCEPT !.best_dist = tmp_dist, !.best_path = name]
            ELSE st

\* the loop body with <= for <: the last of the closest candidates is kept
ScanStepTieLast(st, name, expected, fname, exact) ==
    IF Contains(name, Test) THEN st
    ELSE IF ~EndsWith(name, fname) THEN st
    ELSE IF name = expected THEN [st EXCEPT !.hit = name]
    ELSE IF exact THEN st
    ELSE LET tmp_dist == StrDist(expected, name)
         IN IF tmp_dist <= st.best_dist
            THEN [st EXCEPT !.best_dist = tmp_dist, !.best_path = name]
            ELSE st

\* the body of the loop over namelist() for one name; hit: the name the exact
\* branch was taken for
ScanStep(st, name, expected, fname, exact) ==
    IF Contains(name, Test) THEN st
    ELSE IF ~EndsWith(name, fname) THEN st
    ELSE IF name = expected THEN [st EXCEPT !.hit = name]
    ELSE IF exact THEN st
    ELSE LET tmp_dist == StrDist(expected, name)
         IN IF tmp_dist < st.best_dist
            THEN [st EXCEPT !.best_dist = tmp_dist, !.best_path = name]
            ELSE st

\* the loop from position i on; it is left at the first exact hit
RECURSIVE Scan(_, _, _, _, _, _)
Scan(namelist, i, st, expected, fname, exact) ==
    IF i > Len(namelist) THEN st
    ELSE LET next == ScanStep(st, namelist[i], expected, fname, exact)
         IN IF next.hit # NoPath THEN next
            ELSE Scan(namelist, i + 1, next, expected, fname, exact)

\* an exception leaves extract_files: the directory left behind, the member
\* read, and whether the target was opened for writing
Raised(error, d, member, opened) ==
    [outcome |-> error, matched |-> FALSE, source |-> NoPath, dir |-> d,
     read |-> member, opened |-> opened]

\* return True, source on every path
ReturnedTrue(matched, source, d, member, opened) ==
    [outcome |-> "return", matched |-> TRUE, source |-> source, dir |-> d,
     read |-> member, opened |-> opened]

\* return matched, source
Returned(matched, source, d, member, opened) ==
    [outcome |-> "return", matched |-> matched, source |-> source, dir |-> d,
     read |-> member, opened |-> opened]

\* what follows the removal of the old target: the scan, and the write
ScanAndWrite(d, archive, expected, exact, pre) ==
    LET fname == Basename(expected)
        target_path == TargetName(pre, fname)
        st == Scan(archive.namelist, 1, ScanInit, expected, fname, exact)
    IN IF st.hit # NoPath
       THEN LET w == WriteDecoded(d, target_path, archive.data[st.hit])
            IN IF w.err # "" THEN Raised(w.err, w.dir, st.hit, TRUE)
               ELSE Returned(TRUE, expected, w.dir, st.hit, TRUE)
       ELSE IF exact THEN Returned(FALSE, st.best_path, d, NoPath, FALSE)
       ELSE IF st.best_path = NoPath
       THEN Raised("FileNotFoundError", d, NoPath, FALSE)
       ELSE LET w == WriteDecoded(d, TargetName(pre, fname), archive.data[st.best_path])
            IN IF w.err # "" THEN Raised(w.err, w.dir, st.best_path, TRUE)
               ELSE Returned(FALSE, st.best_path, w.dir, st.best_path, TRUE)

\* extract_files(archive, expected, exact, pre) on the target directory d:
\* the outcome ("return" or the exception raised), the pair returned, the
\* member read, and the directory left behind
ExtractFiles(d, archive, expected, exact, pre) ==
    IF archive.corrupt THEN Raised("BadZipFile", d, NoPath, FALSE)
    ELSE LET rm == RemoveExisting(d, TargetName(pre, Basename(expected)))
         IN IF rm.err # "" THEN Raised(rm.err, rm.dir, NoPath, FALSE)
            ELSE ScanAndWrite(rm.dir, archive, expected, exact, pre)

\* --------------------------------------------- requests on one archive, Spec
NoCall == [kind |-> "none"]

NoFirst == [kind |-> "none"]

Init ==
    /\ zip \in Archives
    /\ dir \in [TargetNames -> {NoFile, File(OldText)}]
    /\ call = NoCall
    /\ first = NoFirst
    /\ dA = <<>> /\ dB = <<>> /\ dRes = <<>>
    /\ glob = <<>> /\ disk = <<>> /\ files = <<>> /\ submissions = <<>>
    /\ batch = <<>> /\ attempted = {}
    /\ procs = <<>> /\ touched = <<>>

CallRecord(expected, exact, pre, res, rerun) ==
    [kind |-> "call", expected |-> expected, exact |-> exact, pre |-> pre,
     outcome |-> res.outcome, matched |-> res.matched, source |-> res.source,
     read |-> res.read, opened |-> res.opened, rerun |-> rerun]

\* one request: extract_files(zip, expected, exact, pre)
Extract(expected, exact, pre) ==
    LET res == ExtractFiles(dir, zip, expected, exact, pre)
    IN /\ dir' = res.dir
       /\ call' = CallRecord(expected, exact, pre, res, FALSE)
       /\ first' = NoFirst
       /\ UNCHANGED <<zip, distVars, batchVars, concVars>>

\* the last request once more, with the same arguments; first keeps what the
\* run before returned or raised and the directory it left
Rerun ==
    /\ call.kind = "call"
    /\ LET res == ExtractFiles(dir, zip, call.expected, call.exact, call.pre)
       IN /\ dir' = res.dir
          /\ call' = CallRecord(call.expected, call.exact, call.pre, res, TRUE)
          /\ first' = [kind |-> "first", outcome |-> call.outcome,
                       matched |-> call.matched, source |-> call.source, dir |-> dir]
    /\ UNCHANGED <<zip, distVars, batchVars, concVars>>

Next ==
    \/ \E expected \in ExpectedPaths, exact \in BOOLEAN, pre \in Prefixes :
          Extract(expected, exact, pre)
    \/ Rerun

Spec == Init /\ [][Next]_vars

\* ------------------------------------------------ the claims checked in Spec
Called == call.kind = "call" /\ ~zip.corrupt

Members == Range(zip.namelist)

Target == TargetName(call.pre, Basename(call.expected))

\* the text of a member, when it is text
TextOf(name) == Decode(zip.data[name]).text

IsText(name) == Decode(zip.data[name]).ok

\* the members, other than the expected path, that end with the base filename
FuzzyCandidates ==
    {n \in Members \ {call.expected} : EndsWith(n, Basename(call.expected))}

\* the exact branch can be taken: a member named as expected passes the filter
ExactHit == call.expected \in Members /\ ~Contains(call.expected, Test)

C1_Case == Called /\ call.expected \in Members /\ FuzzyCandidates # {}

\* C1 as stated: with the exactly-named member and fuzzy candidates in one
\* archive, the exactly-named member's content is written and matched is true
C1_Original ==
    C1_Case =>
        /\ call.outcome = "return" /\ call.matched
        /\ IsText(call.expected)
        /\ dir[Target] = File(TextOf(call.expected))

\* C1, amended: when expectedPath does not contain "test", the exactly-named
\* member is the one read, in either mode and wherever it stands in the
\* listing; when its content is UTF-8 text that text is written to
\* <prefix><base> and matched is true; the text of a fuzzy candidate is never
\* left in the target file.
C1_ExactWins ==
    (C1_Case /\ ~Contains(call.expected, Test)) =>
        /\ call.read = call.expected
        /\ IsText(call.expected) =>
              /\ call.outcome = "return" /\ call.matched
              /\ call.source = call.expected
              /\ dir[Target] = File(TextOf(call.expected))
        /\ \A n \in FuzzyCandidates : IsText(n) => dir[Target] # File(TextOf(n))

\* fuzzy mode, a closer-or-equal candidate listed before the exact member
C1_Witness ==
    /\ C1_Case /\ ~call.exact /\ call.matched
    /\ call.expected = sM
    /\ \E i, j \in 1..Len(zip.namelist) :
          /\ i < j
          /\ zip.namelist[i] = pM /\ IsText(pM)
          /\ zip.namelist[j] = sM
    /\ dir[Target] = File(TextOf(sM))

\* C2: the member a request selects (the source path it returns, the member
\* whose bytes it reads) never contains "test"; in fuzzy mode, when every
\* member ending with the base filename contains "test", the request raises
\* FileNotFoundError.
C2_TestNeverSelected ==
    Called =>
        /\ ~Contains(call.source, Test)
        /\ ~Contains(call.read, Test)
        /\ (/\ ~call.exact
            /\ \A n \in Members :
                  EndsWith(n, Basename(call.expected)) => Contains(n, Test))
           => call.outcome = "FileNotFoundError"

\* the only member with the base filename is the "test" one, named as expected
C2_Witness ==
    /\ Called /\ ~call.exact
    /\ call.expected = testM
    /\ testM \in Members
    /\ \A n \in Members : EndsWith(n, M) => n = testM
    /\ call.outcome = "FileNotFoundError"

\* C3 as stated: a request that ends with an exception leaves the target
\* directory as it was before the call
C3_FailureWritesNothing ==
    [][(call'.kind = "call" /\ call'.outcome # "return") => dir' = dir]_vars

\* C4: the same request once more on the unchanged archive leaves the target
\* directory as the first run left it, returns or raises what the first run
\* did, and meets no error of the file that the first run left at the target.
C4_Idempotent ==
    (call.kind = "call" /\ call.rerun) =>
        /\ call.outcome = first.outcome
        /\ call.matched = first.matched
        /\ call.source = first.source
        /\ dir = first.dir
        /\ call.outcome \notin {"OSError", "FileExistsError"}

\* the second run found the file the first run wrote, and wrote it again
C4_Witness ==
    /\ call.kind = "call" /\ call.rerun
    /\ first.dir[Target].exists
    /\ call.outcome = "return" /\ call.opened
    /\ dir[Target].exists

\* C6 as stated: matched is true iff a member is named exactly as expectedPath
C6_Original ==
    (Called /\ call.outcome = "return") =>
        (call.matched <=> call.expected \in Members)

\* C6, amended: for a call that returns, matched is true iff a member is named
\* exactly as expectedPath and that name does not contain "test"; when there
\* is no such member and fuzzy mode is on, matched is false, sourceMemberPath
\* names the selected member, and its text is written to <prefix><base>.
C6_MatchedIffExactHit ==
    (Called /\ call.outcome = "return") =>
        /\ call.matched <=> ExactHit
        /\ (~ExactHit /\ ~call.exact) =>
              /\ call.source \in Members
              /\ call.source = call.read
              /\ call.opened
              /\ dir[Target] = File(TextOf(call.source))

\* a fuzzy hit that returned: expected s/M absent, another x/M written
C6_Witness ==
    /\ Called /\ call.outcome = "return"
    /\ ~call.exact /\ ~call.matched
    /\ call.expected \notin Members
    /\ call.source \in {pM, qM, M}
    /\ dir[Target] = File(TextOf(call.source))

\* C7: with exactOnly and no exact hit, the call returns (False, None), opens
\* no file for writing and raises nothing, whatever other members end with
\* the base filename.
C7_ExactOnlyNoHit ==
    (Called /\ call.exact /\ ~ExactHit) =>
        /\ call.outcome = "return"
        /\ ~call.matched
        /\ call.source = NoPath
        /\ call.read = NoPath
        /\ ~call.opened
        /\ ~dir[Target].exists

\* exactOnly, expected path absent, same base filename in other directories
C7_Witness ==
    /\ Called /\ call.exact
    /\ call.expected \notin Members
    /\ Cardinality(FuzzyCandidates) >= 2
    /\ call.outcome = "return" /\ ~call.matched

\* positions of the members that pass the "test" filter and end with the base
CandidatePositions ==
    {i \in 1..Len(zip.namelist) :
        /\ ~Contains(zip.namelist[i], Test)
        /\ EndsWith(zip.namelist[i], Basename(call.expected))}

\* C10: in fuzzy mode without an exact hit, the member read is the first in
\* listing order of those at minimum edit distance from expectedPath among
\* the members that do not contain "test" and end with the base filename;
\* without any such member the request raises FileNotFoundError.
C10_FirstClosestCandidate ==
    (Called /\ ~call.exact /\ ~ExactHit) =>
        IF CandidatePositions = {}
        THEN call.outcome = "FileNotFoundError" /\ call.read = NoPath
        ELSE \E k \in CandidatePositions :
                /\ call.read = zip.namelist[k]
                /\ call.outcome \in {"return", "UnicodeDecodeError"}
                /\ call.outcome = "return" => call.source = zip.namelist[k]
                /\ \A j \in CandidatePositions :
                      LET dk == StrDist(call.expected, zip.namelist[k])
                          dj == StrDist(call.expected, zip.namelist[j])
                      IN dk <= dj /\ (j < k => dk < dj)

\* a tie at the minimum, after a farther candidate: M, then q/M, then p/M
C10_Witness ==
    /\ Called /\ ~call.exact
    /\ call.expected = sM
    /\ zip.namelist = <<M, qM, pM>>
    /\ call.read = qM

\* ------------------------------------------- get_submissions, the file names
Lower == {"a", "b", "c", "d", "e", "f", "g", "h", "i", "j", "k", "l", "m",
          "n", "o", "p", "q", "r", "s", "t", "u", "v", "w", "x", "y", "z"}

Digit == {"0", "1", "2", "3", "4", "5", "6", "7", "8", "9"}

\* [a-z]+[0-9]*
IsUsername(s) ==
    \E n \in 1..Len(s) :
        /\ \A i \in 1..n : s[i] \in Lower
        /\ \A i \in (n + 1)..Len(s) : s[i] \in Digit

\* [0-9]{4}-[0-9]{2}-[0-9]{2}
IsDate(s) ==
    /\ Len(s) = 10
    /\ \A i \in 1..10 : IF i \in {5, 8} THEN s[i] = "-" ELSE s[i] \in Digit

SetMin(S) == CHOOSE x \in S : \A y \in S : x <= y

SetMax(S) == CHOOSE x \in S : \A y \in S : y <= x

\* dfa.match(fname) for [^_]+_([a-z]+[0-9]*)_.+_([0-9]{4}-[0-9]{2}-[0-9]{2})-.*
\* [^_]+ ends before the first "_", the username group before the second; the
\* greedy .+ ends before the last "_" that a date and a "-" follow
RegexMatch(fname) ==
    LET us == {i \in 1..Len(fname) : fname[i] = "_"}
        i == SetMin(us)
        j == SetMin(us \ {i})
        ks == {k \in us : /\ k >= j + 2
                           /\ k + 11 <= Len(fname)
                           /\ IsDate(SubSeq(fname, k + 1, k + 10))
                           /\ fname[k + 11] = "-"}
    IN IF /\ Cardinality(us) >= 3
          /\ i >= 2
          /\ IsUsername(SubSeq(fname, i + 1, j - 1))
          /\ ks # {}
       THEN [ok |-> TRUE,
             username |-> SubSeq(fname, i + 1, j - 1),
             sub_date |-> SubSeq(fname, SetMax(ks) + 1, SetMax(ks) + 10)]
       ELSE [ok |-> FALSE, username |-> <<>>, sub_date |-> <<>>]

\* self._submissions[username] = {...}: a new key goes last, a known key keeps
\* its place and takes the new value
PutSubmission(subs, rec) ==
    IF \E i \in 1..Len(subs) : subs[i].username = rec.username
    THEN [i \in 1..Len(subs) |->
             IF subs[i].username = rec.username THEN rec ELSE subs[i]]
    ELSE Append(subs, rec)

\* the loop of get_submissions from position i on; matches.lastindex of a
\* name that does not match is an attribute of None
RECURSIVE GetSubmissionsLoop(_, _, _)
GetSubmissionsLoop(found, i, subs) ==
    IF i > Len(found) THEN [err |-> "", subs |-> subs]
    ELSE LET matches == RegexMatch(found[i])
         IN IF ~matches.ok THEN [err |-> "AttributeError", subs |-> subs]
            ELSE GetSubmissionsLoop(found, i + 1,
                    PutSubmission(subs, [username |-> matches.username,
                                         archive |-> found[i],
                                         sub_date |-> matches.sub_date]))

\* the prefix without its separator
UserPrefixNoSeparator(username) == username

\* f"{username}_"
UserPrefix(username) == username \o <<"_">>

\* --------------------------------------------- extract_into_dir, SpecBatch
MaxArchives == 2        \* most archive files in the directory

Date1 == <<"2", "0", "2", "4", "-", "0", "3", "-", "0", "1">>

Date2 == <<"2", "0", "2", "4", "-", "0", "3", "-", "0", "2">>

\* x_al_p_2024-03-01-f, x_bo7_p_2024-03-01-f, y_al_q_2024-03-02-g,
\* notes-2024-03-01-f
ArchiveFileNames ==
    {<<"x", "_", "a", "l", "_", "p", "_">> \o Date1 \o <<"-", "f">>,
     <<"x", "_", "b", "o", "7", "_", "p", "_">> \o Date1 \o <<"-", "f">>,
     <<"y", "_", "a", "l", "_", "q", "_">> \o Date2 \o <<"-", "g">>,
     <<"n", "o", "t", "e", "s", "-">> \o Date1 \o <<"-", "f">>}

TextArchive(l) ==
    [corrupt |-> FALSE, namelist |-> l, data |-> [n \in Range(l) |-> TextBytes(n)]]

BatchArchives ==
    {[corrupt |-> TRUE, namelist |-> <<>>, data |-> <<>>],
     TextArchive(<<sM>>),
     TextArchive(<<pM, sN>>),
     [corrupt |-> FALSE, namelist |-> <<sM>>, data |-> [n \in {sM} |-> BinaryBytes(n)]]}

BatchFiles == {<<sM>>, <<sM, sN>>, <<sN, sM>>}

BatchTargets ==
    {TargetName(UserPrefix(RegexMatch(a).username), Basename(e)) :
        a \in {x \in ArchiveFileNames : RegexMatch(x).ok}, e \in {sM, sN}}

InitBatch ==
    /\ glob \in {l \in UNION {[1..n -> ArchiveFileNames] : n \in 0..MaxArchives} :
                    \A i, j \in 1..Len(l) : l[i] = l[j] => i = j}
    /\ disk \in [Range(glob) -> BatchArchives]
    /\ files \in BatchFiles
    /\ submissions = <<>>
    /\ batch = [pc |-> "start", u |-> 1, f |-> 1, err |-> ""]
    /\ attempted = {}
    /\ dir = [t \in BatchTargets |-> NoFile]
    /\ zip = <<>> /\ call = <<>> /\ first = <<>>
    /\ dA = <<>> /\ dB = <<>> /\ dRes = <<>>
    /\ procs = <<>> /\ touched = <<>>

\* archives = self.get_submissions(path)
GetSubmissions ==
    /\ batch.pc = "start"
    /\ LET r == GetSubmissionsLoop(glob, 1, submissions)
       IN /\ submissions' = r.subs
          /\ batch' = IF r.err = "" THEN [batch EXCEPT !.pc = "loop"]
                      ELSE [batch EXCEPT !.pc = "aborted", !.err = r.err]
    /\ UNCHANGED <<glob, disk, files, attempted, dir, zip, call, first,
                   distVars, concVars>>

\* one turn of the inner loop: extract_files for (username, fname); only
\* FileNotFoundError is caught
ExtractPair ==
    /\ batch.pc = "loop"
    /\ batch.u <= Len(submissions)
    /\ LET rec == submissions[batch.u]
           fname == files[batch.f]
           res == ExtractFiles(dir, disk[rec.archive], fname, FALSE,
                               UserPrefix(rec.username))
       IN /\ attempted' = attempted \cup {<<rec.username, fname>>}
          /\ dir' = res.dir
          /\ batch' =
                IF res.outcome \notin {"return", "FileNotFoundError"}
                THEN [batch EXCEPT !.pc = "aborted", !.err = res.outcome]
                ELSE IF batch.f < Len(files)
                THEN [batch EXCEPT !.f = batch.f + 1]
                ELSE [batch EXCEPT !.u = batch.u + 1, !.f = 1]
    /\ UNCHANGED <<glob, disk, files, submissions, zip, call, first,
                   distVars, concVars>>

\* both loops are exhausted: extract_into_dir returns
BatchReturn ==
    /\ batch.pc = "loop"
    /\ batch.u > Len(submissions)
    /\ batch' = [batch EXCEPT !.pc = "done"]
    /\ UNCHANGED <<glob, disk, files, submissions, attempted, engineVars,
                   distVars, concVars>>

NextBatch == GetSubmissions \/ ExtractPair \/ BatchReturn

SpecBatch == InitBatch /\ [][NextBatch]_vars

\* the submitters of the archive files whose names have the pattern
NamedSubmitters ==
    {RegexMatch(glob[i]).username : i \in {k \in 1..Len(glob) : RegexMatch(glob[k]).ok}}

\* C8 as stated: whatever fails for one archive or one (submitter, file) pair,
\* the batch goes on, and when it ends every (submitter, file) pair has been
\* attempted
C8_BatchAttemptsEveryPair ==
    batch.pc \in {"done", "aborted"} =>
        \A u \in NamedSubmitters, e \in Range(files) : <<u, e>> \in attempted

\* ------------------ requests interleaved on one target directory, SpecConc
NProcs == 2             \* requests running at once

X == <<"x">>
bX == <<"b", "x">>
dX == <<"d", "/", "x">>

Usernames == {<<"a">>, <<"a", "b">>}

ConcExpected == {X, bX, dX}

\* every submitter's archive: x and d/x are members, bx is not
ConcArchive ==
    [corrupt |-> FALSE, namelist |-> <<X, dX>>, data |-> (X :> <<88>>) @@ (dX :> <<89>>)]

\* the target name of the request of process p
ProcTarget(p) ==
    TargetName(UserPrefix(procs[p].username), Basename(procs[p].expected))

ConcTargets ==
    {TargetName(pre, Basename(e)) :
        pre \in {UserPrefix(u) : u \in Usernames} \cup Usernames, e \in ConcExpected}

InitConc ==
    /\ procs \in [1..NProcs ->
                    [username : Usernames, expected : ConcExpected, pc : {"exists"},
                     outcome : {""}]]
    /\ touched = [p \in 1..NProcs |-> {}]
    /\ \E old \in {NoFile, File(OldText)} : dir = [t \in ConcTargets |-> old]
    /\ zip = <<>> /\ call = <<>> /\ first = <<>>
    /\ dA = <<>> /\ dB = <<>> /\ dRes = <<>>
    /\ glob = <<>> /\ disk = <<>> /\ files = <<>> /\ submissions = <<>>
    /\ batch = <<>> /\ attempted = {}

\* if os.path.exists(target_path):
CheckExists(p) ==
    /\ procs[p].pc = "exists"
    /\ procs' = [procs EXCEPT ![p].pc =
                    IF dir[ProcTarget(p)].exists THEN "remove" ELSE "scan"]
    /\ UNCHANGED <<touched, dir, zip, call, first, distVars, batchVars>>

\* os.remove(target_path): FileNotFoundError when the file is gone by now
Remove(p) ==
    /\ procs[p].pc = "remove"
    /\ IF dir[ProcTarget(p)].exists
       THEN /\ dir' = OsRemove(dir, ProcTarget(p)).dir
            /\ touched' = [touched EXCEPT ![p] = @ \cup {ProcTarget(p)}]
            /\ procs' = [procs EXCEPT ![p].pc = "scan"]
       ELSE /\ procs' = [procs EXCEPT ![p].pc = "done",
                                      ![p].outcome = "FileNotFoundError"]
            /\ UNCHANGED <<dir, touched>>
    /\ UNCHANGED <<zip, call, first, distVars, batchVars>>

\* the scan of the listing and the write of the selected member
ScanWrite(p) ==
    /\ procs[p].pc = "scan"
    /\ LET res == ScanAndWrite(dir, ConcArchive, procs[p].expected, FALSE,
                               UserPrefix(procs[p].username))
       IN /\ dir' = res.dir
          /\ touched' = [touched EXCEPT ![p] =
                            IF res.opened THEN @ \cup {ProcTarget(p)} ELSE @]
          /\ procs' = [procs EXCEPT ![p].pc = "done", ![p].outcome = res.outcome]
    /\ UNCHANGED <<zip, call, first, distVars, batchVars>>

NextConc ==
    \E p \in 1..NProcs : CheckExists(p) \/ Remove(p) \/ ScanWrite(p)

SpecConc == InitConc /\ [][NextConc]_vars

\* C5 as stated: two requests remove or write the same target only when they
\* are for the same submitter and the same requested file
C5_Original ==
    \A p, q \in 1..NProcs :
        touched[p] \cap touched[q] # {} =>
            /\ procs[p].username = procs[q].username
            /\ procs[p].expected = procs[q].expected

\* C5, amended: with the prefix <submitterKey>_, two requests remove or write
\* the same target only when they are for the same submitter and for requested
\* files with the same base filename; a request never removes or writes the
\* output of another submitter, nor the output of the same submitter for a
\* file with another base filename.
C5_SameSubmitterSameBase ==
    \A p, q \in 1..NProcs :
        touched[p] \cap touched[q] # {} =>
            /\ procs[p].username = procs[q].username
            /\ Basename(procs[p].expected) = Basename(procs[q].expected)

\* submitter a asked for bx and submitter ab for x: both ran, the first
\* removed a_bx and the second wrote ab_x
C5_Witness ==
    \E p, q \in 1..NProcs :
        /\ procs[p].username = <<"a">> /\ procs[p].expected = bX
        /\ procs[q].username = <<"a", "b">> /\ procs[q].expected = X
        /\ procs[p].pc = "done" /\ procs[q].pc = "done"
        /\ touched[p] = {<<"a", "_", "b", "x">>}
        /\ touched[q] = {<<"a", "b", "_", "x">>}
        /\ dir[<<"a", "b", "_", "x">>] = File(<<88>>)

====
